---- MODULE Spec2Model ----
(***************************************************************************)
(* Shape import of mitsuba-blender (io/importer/shapes.py): the dispatch   *)
(* engine mi_shape_to_bl_shape, its seven converters and the shading       *)
(* utility _set_bl_mesh_shading.                                           *)
(*                                                                         *)
(* A call is modelled as one atomic action.  A converter is an operator    *)
(* that threads a local frame                                              *)
(*    [pc, exc, trace, log, mesh, wm]                                      *)
(* through its statements in source order: pc is "run" while the body is   *)
(* executing and becomes "pair" (return bl_mesh, world_matrix), "None"     *)
(* (return None) or "raise" (a Python exception leaves the function);      *)
(* trace is the ordered list of calls made to collaborators (Blender,      *)
(* Mitsuba, the import context), log the diagnostics handed to             *)
(* mi_context.log.  A statement applied to a frame that is no longer       *)
(* running leaves it alone.                                                *)
(***************************************************************************)
EXTENDS Integers, Sequences, FiniteSets

VARIABLES op, mi_shape, env, ret, bl_mesh, world_matrix, log, trace,
          shape_converters

vars == <<op, mi_shape, env, ret, bl_mesh, world_matrix, log, trace,
          shape_converters>>

\* ---------------------------------------------------------------- bounds
\* Largest number of polygons of a mesh handed over by a loader or generator.
MaxFaces == 2
\* Largest number of meshes bl_import_obj.load returns for one file.
MaxMeshes == 2

\* ------------------------------------------------------------ Python bits
None == "None"

RECURSIVE Reverse(_)
Reverse(s) == IF s = <<>> THEN <<>> ELSE Append(Reverse(Tail(s)), Head(s))

RECURSIVE CountOp(_, _)
\* how many calls of collaborator o the trace t holds
CountOp(t, o) ==
    IF t = <<>> THEN 0
    ELSE (IF Head(t).op = o THEN 1 ELSE 0) + CountOp(Tail(t), o)

RECURSIVE CountLevel(_, _)
\* how many diagnostics of level l the log holds
CountLevel(lg, l) ==
    IF lg = <<>> THEN 0
    ELSE (IF Head(lg).level = l THEN 1 ELSE 0) + CountLevel(Tail(lg), l)

\* position of the first call of o in t, 0 when there is none
FirstOp(t, o) ==
    IF \E i \in 1..Len(t) : t[i].op = o
    THEN CHOOSE i \in 1..Len(t) : t[i].op = o /\ \A j \in 1..(i-1) : t[j].op # o
    ELSE 0

\* ----------------------------------------------------------- shape record
Absent(v) == [has |-> FALSE, v |-> v]
Present(v) == [has |-> TRUE, v |-> v]

MkShape(kind, id, fn, fnorm, tw, c, r, flip, si) ==
    [plugin_name |-> kind, id |-> id,
     props |-> [filename |-> fn, face_normals |-> fnorm, to_world |-> tw,
                center |-> c, radius |-> r, flip_normals |-> flip,
                shape_index |-> si]]

has_property(shape, key) == shape.props[key].has

\* mi_shape.get(key, default) and, for a present key, mi_shape[key]
Get(shape, key, default) ==
    IF shape.props[key].has THEN shape.props[key].v ELSE default

plugin_name(shape) == shape.plugin_name

\* ------------------------------------------------------------ transforms
\* A matrix or vector value: form "Matrix" (m names the affine matrix),
\* "Vector" or "Translation" (v holds the coordinates); nconv counts the
\* change-of-basis factors the value carries.
NoMatrix == [form |-> "none", m |-> "none", v |-> <<0, 0, 0>>, nconv |-> 0]

Vector(c) == [form |-> "Vector", m |-> "none", v |-> c, nconv |-> 0]

Translation(vec) == [vec EXCEPT !.form = "Translation"]

mi_transform_to_bl_transform(t) ==
    [form |-> "Matrix", m |-> IF t = None THEN "Identity" ELSE t,
     v |-> <<0, 0, 0>>, nconv |-> 0]

mi_space_to_bl_space(x) == [x EXCEPT !.nconv = @ + 1]

\* ----------------------------------------------------------------- meshes
NoMesh == [name |-> "", gen |-> "none", entry |-> 0, size |-> 0, polygons |-> <<>>]

\* polygon i of a mesh as a loader or generator hands it over
Polygon(i, smooth) == [vertices |-> <<i, i + 1, i + 2>>, use_smooth |-> smooth]

RECURSIVE Polygons(_, _)
\* polygons 1..n of a mesh whose use_smooth flags are smooth
Polygons(smooth, n) ==
    IF n = 0 THEN <<>>
    ELSE Append(Polygons(smooth, n - 1), Polygon(n, smooth[n]))

NewMesh(name, gen, entry, size, smooth) ==
    [name |-> name, gen |-> gen, entry |-> entry, size |-> size,
     polygons |-> Polygons(smooth, Len(smooth))]

\* ----------------------------------------------------------------- frames
Ev(o, a) == [op |-> o, a |-> a]

Start == [pc |-> "run", exc |-> "", trace |-> <<>>, log |-> <<>>,
          mesh |-> NoMesh, wm |-> NoMatrix]

Running(s) == s.pc = "run"

Call(s, o, a) == IF Running(s) THEN [s EXCEPT !.trace = Append(@, Ev(o, a))] ELSE s

Raise(s, e) == IF Running(s) THEN [s EXCEPT !.pc = "raise", !.exc = e] ELSE s

\* mutant: the assertion is compiled away
PyAssert_skipped(s, cond) == s

\* the assert statement
PyAssert(s, cond) == IF Running(s) /\ ~cond THEN Raise(s, "AssertionError") ELSE s

Log(s, msg, arg, level) ==
    IF Running(s)
    THEN [s EXCEPT !.log = Append(@, [level |-> level, msg |-> msg, arg |-> arg]),
                   !.trace = Append(@, Ev("log", <<level>>))]
    ELSE s

SetMesh(s, m) == IF Running(s) THEN [s EXCEPT !.mesh = m] ELSE s

SetWm(s, w) == IF Running(s) THEN [s EXCEPT !.wm = w] ELSE s

\* s.wm := mi_context.mi_space_to_bl_space(s.wm)
ToBlSpace(s) ==
    IF Running(s)
    THEN [s EXCEPT !.wm = mi_space_to_bl_space(@),
                   !.trace = Append(@, Ev("mi_space_to_bl_space", <<>>))]
    ELSE s

ReturnPair(s) == IF Running(s) THEN [s EXCEPT !.pc = "pair"] ELSE s

ReturnNone(s) == IF Running(s) THEN [s EXCEPT !.pc = "None"] ELSE s

\* ------------------------------------------------------------- utilities
\* bl_mesh.polygons.foreach_set('use_smooth', [value] * len(bl_mesh.polygons))
RECURSIVE SetUseSmooth(_, _)
SetUseSmooth(polygons, value) ==
    IF polygons = <<>> THEN <<>>
    ELSE <<[Head(polygons) EXCEPT !.use_smooth = value]>>
         \o SetUseSmooth(Tail(polygons), value)

foreach_set_use_smooth(mesh, value) ==
    [mesh EXCEPT !.polygons = SetUseSmooth(@, value)]

\* bl_mesh.flip_normals(): the vertex order of every polygon is reversed
RECURSIVE FlipPolygons(_)
FlipPolygons(polygons) ==
    IF polygons = <<>> THEN <<>>
    ELSE <<[Head(polygons) EXCEPT !.vertices = Reverse(@)]>>
         \o FlipPolygons(Tail(polygons))

flip_normals(mesh) == [mesh EXCEPT !.polygons = FlipPolygons(@)]

\* mutant: the flip is nested in the smooth branch
set_bl_mesh_shading_flip_if_smooth(s, flat_shading, flip_normals_arg) ==
    LET s0 == Call(s, "_set_bl_mesh_shading", <<flat_shading, flip_normals_arg>>)
        s1 == IF flat_shading
              THEN SetMesh(Call(s0, "foreach_set", <<FALSE>>),
                           foreach_set_use_smooth(s0.mesh, FALSE))
              ELSE SetMesh(Call(Call(s0, "calc_normals", <<>>), "foreach_set", <<TRUE>>),
                           foreach_set_use_smooth(s0.mesh, TRUE))
        s2 == IF flip_normals_arg /\ ~flat_shading
              THEN SetMesh(Call(s1, "flip_normals", <<>>), flip_normals(s1.mesh))
              ELSE s1
    IN  IF Running(s) THEN Call(s2, "update", <<>>) ELSE s

_set_bl_mesh_shading(s, flat_shading, flip_normals_arg) ==
    LET s0 == Call(s, "_set_bl_mesh_shading", <<flat_shading, flip_normals_arg>>)
        s1 == IF flat_shading
              THEN SetMesh(Call(s0, "foreach_set", <<FALSE>>),
                           foreach_set_use_smooth(s0.mesh, FALSE))
              ELSE SetMesh(Call(Call(s0, "calc_normals", <<>>), "foreach_set", <<TRUE>>),
                           foreach_set_use_smooth(s0.mesh, TRUE))
        s2 == IF flip_normals_arg
              THEN SetMesh(Call(s1, "flip_normals", <<>>), flip_normals(s1.mesh))
              ELSE s1
    IN  IF Running(s) THEN Call(s2, "update", <<>>) ELSE s

\* ------------------------------------------------------------ converters
\* mutant: the default of face_normals is True
ply_flat_shading_default_true(shape) == Get(shape, "face_normals", TRUE)

\* the flat_shading argument the PLY converter hands to the shading utility
ply_flat_shading(shape) == Get(shape, "face_normals", FALSE)

mi_ply_to_bl_shape(shape, e) ==
    LET s1 == PyAssert(Start, has_property(shape, "filename"))
        filename == Get(shape, "filename", None)
        s2 == Call(s1, "resolve_scene_relative_path", <<filename>>)
        s3 == SetMesh(Call(s2, "load_ply_mesh", <<filename, shape.id>>),
                      IF e.ply_ok THEN NewMesh(shape.id, "ply", 0, 0, e.smooth)
                      ELSE NoMesh)
        s4 == IF Running(s3) /\ s3.mesh = NoMesh
              THEN ReturnNone(Log(s3, "Cannot load PLY mesh file", filename, "ERROR"))
              ELSE s3
        s5 == _set_bl_mesh_shading(s4, ply_flat_shading(shape), FALSE)
        s6 == SetWm(s5, mi_transform_to_bl_transform(Get(shape, "to_world", None)))
    IN  ReturnPair(ToBlSpace(s6))

\* the meshes bl_import_obj.load returns, in file order
RECURSIVE ObjEntries(_, _)
ObjEntries(e, n) ==
    IF n = 0 THEN <<>>
    ELSE Append(ObjEntries(e, n - 1), NewMesh("obj", "obj", n - 1, 0, e.smooth))

obj_meshes(e) == ObjEntries(e, e.n_meshes)

\* mutant: the warning is given for any loaded file
obj_warns_nonempty(bl_meshes) == Len(bl_meshes) >= 1

\* line 79: is the multi-mesh warning due?
obj_warns(bl_meshes) == Len(bl_meshes) > 1

\* the flat_shading argument the OBJ converter hands to the shading utility
obj_flat_shading(shape) == Get(shape, "face_normals", FALSE)

mi_obj_to_bl_shape(shape, e) ==
    LET s0 == Call(Start, "time", <<>>)
        s1 == PyAssert(s0, has_property(shape, "filename"))
        filename == Get(shape, "filename", None)
        s2 == Call(s1, "resolve_scene_relative_path", <<filename>>)
        bl_meshes == obj_meshes(e)
        s3 == Call(s2, "bl_import_obj.load", <<filename>>)
        s4 == IF obj_warns(bl_meshes)
              THEN Log(s3, "OBJ file containing more than one mesh", filename, "WARN")
              ELSE s3
        s5 == IF Len(bl_meshes) = 0 THEN Raise(s4, "IndexError")
              ELSE SetMesh(s4, [bl_meshes[1] EXCEPT !.name = shape.id])
        s6 == _set_bl_mesh_shading(s5, obj_flat_shading(shape), FALSE)
        s7 == SetWm(s6, mi_transform_to_bl_transform(Get(shape, "to_world", None)))
        s8 == Log(Call(s7, "time", <<>>), "Loaded OBJ mesh", shape.id, "INFO")
    IN  ReturnPair(ToBlSpace(s8))

\* mutant: the radius property is read in both modes
sphere_radius_both_modes(shape) == Get(shape, "radius", 1)

\* lines 100-106: the radius handed to the sphere generator
sphere_radius(shape) ==
    IF has_property(shape, "to_world") THEN 1 ELSE Get(shape, "radius", 1)

\* lines 100-106: the placement of the sphere
sphere_world_matrix(s, shape) ==
    IF has_property(shape, "to_world")
    THEN ToBlSpace(SetWm(s, mi_transform_to_bl_transform(Get(shape, "to_world", None))))
    ELSE LET v == ToBlSpace(SetWm(s, Vector(Get(shape, "center", <<0, 0, 0>>))))
         IN  SetWm(v, Translation(v.wm))

mi_sphere_to_bl_shape(shape, e) ==
    LET s1 == SetMesh(Call(Start, "meshes.new", <<shape.id>>),
                      NewMesh(shape.id, "new", 0, 0, <<>>))
        s2 == sphere_world_matrix(s1, shape)
        radius == sphere_radius(shape)
        s3 == SetMesh(Call(s2, "create_uvsphere", <<radius>>),
                      NewMesh(shape.id, "uvsphere", 0, radius, e.smooth))
        s4 == _set_bl_mesh_shading(s3, FALSE, Get(shape, "flip_normals", FALSE))
    IN  ReturnPair(s4)

\* mutant: the world matrix is returned unconverted
primitive_to_bl_shape_unconverted(shape, e, generator, size) ==
    LET s1 == SetMesh(Call(Start, "meshes.new", <<shape.id>>),
                      NewMesh(shape.id, "new", 0, 0, <<>>))
        s2 == SetMesh(Call(s1, generator, <<size>>),
                      NewMesh(shape.id, generator, 0, size, e.smooth))
        s3 == _set_bl_mesh_shading(s2, TRUE, Get(shape, "flip_normals", FALSE))
        s4 == SetWm(s3, mi_transform_to_bl_transform(Get(shape, "to_world", None)))
    IN  ReturnPair(s4)

\* lines 119-165: disk, rectangle and cube differ in the generator only
primitive_to_bl_shape(shape, e, generator, size) ==
    LET s1 == SetMesh(Call(Start, "meshes.new", <<shape.id>>),
                      NewMesh(shape.id, "new", 0, 0, <<>>))
        s2 == SetMesh(Call(s1, generator, <<size>>),
                      NewMesh(shape.id, generator, 0, size, e.smooth))
        s3 == _set_bl_mesh_shading(s2, TRUE, Get(shape, "flip_normals", FALSE))
        s4 == SetWm(s3, mi_transform_to_bl_transform(Get(shape, "to_world", None)))
    IN  ReturnPair(ToBlSpace(s4))

mi_disk_to_bl_shape(shape, e) == primitive_to_bl_shape(shape, e, "create_circle", 1)

mi_rectangle_to_bl_shape(shape, e) == primitive_to_bl_shape(shape, e, "create_grid", 1)

mi_cube_to_bl_shape(shape, e) == primitive_to_bl_shape(shape, e, "create_cube", 2)

mi_serialized_to_bl_shape(shape, e) ==
    LET s0 == Call(Call(Start, "import mitsuba", <<>>), "time", <<>>)
        s1 == PyAssert(s0, has_property(shape, "filename"))
        filename == Get(shape, "filename", None)
        s2 == Call(s1, "resolve_scene_relative_path", <<filename>>)
        s3 == Call(s2, "mi.load_dict",
                   <<plugin_name(shape), filename, Get(shape, "shape_index", None)>>)
        s4 == IF e.decoder \in {"instantiation_error", "index_out_of_range"}
              THEN Raise(s3, "RuntimeError") ELSE s3
        s5 == Call(s4, "traverse", <<>>)
        s6 == IF e.decoder = "missing_array" THEN Raise(s5, "KeyError") ELSE s5
        s7 == SetMesh(Call(s6, "meshes.new", <<shape.id>>),
                      NewMesh(shape.id, "new", 0, 0, <<>>))
        s8 == IF e.decoder = "bad_shape" THEN Raise(s7, "ValueError") ELSE s7
        s9 == SetMesh(Call(s8, "from_pydata", <<>>),
                      NewMesh(shape.id, "from_pydata", 0, 0, e.smooth))
        s10 == Call(s9, "calc_normals", <<>>)
        s11 == Log(Call(s10, "time", <<>>), "Loaded serialized mesh", shape.id, "INFO")
        s12 == SetWm(s11, mi_transform_to_bl_transform(Get(shape, "to_world", None)))
    IN  ReturnPair(s12)

\* ----------------------------------------------------------- main import
ShapeConverters ==
    [ply |-> "mi_ply_to_bl_shape",
     obj |-> "mi_obj_to_bl_shape",
     sphere |-> "mi_sphere_to_bl_shape",
     disk |-> "mi_disk_to_bl_shape",
     rectangle |-> "mi_rectangle_to_bl_shape",
     cube |-> "mi_cube_to_bl_shape",
     serialized |-> "mi_serialized_to_bl_shape"]

\* _shape_converters[shape_type](mi_context, mi_shape)
Invoke(f, shape, e) ==
    CASE f = "mi_ply_to_bl_shape" -> mi_ply_to_bl_shape(shape, e)
      [] f = "mi_obj_to_bl_shape" -> mi_obj_to_bl_shape(shape, e)
      [] f = "mi_sphere_to_bl_shape" -> mi_sphere_to_bl_shape(shape, e)
      [] f = "mi_disk_to_bl_shape" -> mi_disk_to_bl_shape(shape, e)
      [] f = "mi_rectangle_to_bl_shape" -> mi_rectangle_to_bl_shape(shape, e)
      [] f = "mi_cube_to_bl_shape" -> mi_cube_to_bl_shape(shape, e)
      [] f = "mi_serialized_to_bl_shape" -> mi_serialized_to_bl_shape(shape, e)

\* mutant: the diagnostic is a warning
unsupported_shape_warn(s, shape_type) ==
    ReturnNone(Log(s, "Mitsuba Shape type not supported", shape_type, "WARN"))

\* lines 232-234: the branch taken for a kind the table does not hold
unsupported_shape(s, shape_type) ==
    ReturnNone(Log(s, "Mitsuba Shape type not supported", shape_type, "ERROR"))

\* line 237: `bl_mesh, world_matrix = <result>` unpacks the converter's result
Unpack(r) ==
    IF r.pc = "None" THEN [r EXCEPT !.pc = "raise", !.exc = "TypeError"] ELSE r

mi_shape_to_bl_shape(table, shape, e) ==
    LET shape_type == plugin_name(shape)
    IN  IF shape_type \notin DOMAIN table
        THEN unsupported_shape(Start, shape_type)
        ELSE Unpack(Invoke(table[shape_type], shape, e))

\* ------------------------------------------------------- inputs of a call
BoolProps == {Absent(FALSE), Present(FALSE), Present(TRUE)}
ToWorldProps == {Absent(None), Present("W1")}
CenterProps == {Absent(<<0, 0, 0>>), Present(<<1, 2, 3>>)}
RadiusProps == {Absent(1), Present(2)}
IndexProps == {Absent(0), Present(1)}

FileShapes(kind, file) ==
    { MkShape(kind, "shape", fn, fnorm, tw, Absent(<<0, 0, 0>>), Absent(1),
              Absent(FALSE), Absent(0)) :
        fn \in {Absent(""), Present(file)}, fnorm \in BoolProps, tw \in ToWorldProps }

SphereShapes ==
    { MkShape("sphere", "shape", Absent(""), Absent(FALSE), tw, c, r, flip, Absent(0)) :
        tw \in ToWorldProps, c \in CenterProps, r \in RadiusProps, flip \in BoolProps }

PrimitiveShapes(kind) ==
    { MkShape(kind, "shape", Absent(""), Absent(FALSE), tw, Absent(<<0, 0, 0>>),
              Absent(1), flip, Absent(0)) :
        tw \in ToWorldProps, flip \in BoolProps }

SerializedShapes ==
    { MkShape("serialized", "shape", fn, Absent(FALSE), tw, Absent(<<0, 0, 0>>),
              Absent(1), Absent(FALSE), si) :
        fn \in {Absent(""), Present("mesh.serialized")}, tw \in ToWorldProps,
        si \in IndexProps }

\* kinds the dispatch table does not hold
UnsupportedShapes ==
    { MkShape(kind, "shape", fn, Absent(FALSE), Absent(None), Absent(<<0, 0, 0>>),
              Absent(1), Absent(FALSE), Absent(0)) :
        kind \in {"cylinder", "PLY"}, fn \in {Absent(""), Present("mesh.ply")} }

Shapes ==
    { shape : shape \in
        FileShapes("ply", "mesh.ply") \cup FileShapes("obj", "mesh.obj")
        \cup SphereShapes \cup PrimitiveShapes("disk") \cup PrimitiveShapes("rectangle")
        \cup PrimitiveShapes("cube") \cup SerializedShapes \cup UnsupportedShapes }

\* What the collaborators do during one call: does load_ply_mesh find a mesh,
\* how many meshes bl_import_obj.load returns, the use_smooth flags of the
\* polygons of the mesh handed over, and how the embedded decoder fares.
MkEnv(ok, n, smooth, dec) ==
    [ply_ok |-> ok, n_meshes |-> n, smooth |-> smooth, decoder |-> dec]

\* use_smooth flags a mesh file may carry
RECURSIVE Flags(_)
\* the sequences of n flags
Flags(n) ==
    IF n = 0 THEN {<<>>}
    ELSE { Append(sm, b) : sm \in Flags(n - 1), b \in BOOLEAN }

SmoothFlags == { sm : sm \in UNION { Flags(n) : n \in 1..MaxFaces } }

\* a generated mesh has no smooth polygon
Unsmoothed == { sm \in SmoothFlags : \A i \in 1..Len(sm) : ~sm[i] }

Decoders == {"ok", "instantiation_error", "index_out_of_range", "missing_array",
             "bad_shape"}

\* A file-backed shape without filename never reaches a collaborator.
Envs(shape) ==
    CASE plugin_name(shape) \in {"ply", "obj", "serialized"}
         /\ ~has_property(shape, "filename") ->
            {MkEnv(TRUE, 1, <<FALSE>>, "ok")}
      [] plugin_name(shape) = "ply" ->
            {MkEnv(FALSE, 0, <<FALSE>>, "ok")}
            \cup { MkEnv(TRUE, 1, sm, "ok") : sm \in SmoothFlags }
      [] plugin_name(shape) = "obj" ->
            {MkEnv(TRUE, 0, <<FALSE>>, "ok")}
            \cup { MkEnv(TRUE, n, sm, "ok") : n \in 1..MaxMeshes, sm \in SmoothFlags }
      [] plugin_name(shape) = "serialized" ->
            { MkEnv(TRUE, 1, <<FALSE>>, d) : d \in Decoders \ {"ok"} }
            \cup { MkEnv(TRUE, 1, sm, "ok") : sm \in Unsmoothed }
      [] OTHER -> { MkEnv(TRUE, 1, sm, "ok") : sm \in Unsmoothed }

NoShape ==
    MkShape("", "", Absent(""), Absent(FALSE), Absent(None), Absent(<<0, 0, 0>>),
            Absent(1), Absent(FALSE), Absent(0))

\* ------------------------------------------------------------ the machine
Init ==
    /\ op = "init"
    /\ mi_shape = NoShape
    /\ env = MkEnv(TRUE, 1, <<FALSE>>, "ok")
    /\ ret = [kind |-> "none", exc |-> ""]
    /\ bl_mesh = NoMesh
    /\ world_matrix = NoMatrix
    /\ log = <<>>
    /\ trace = <<>>
    /\ shape_converters = ShapeConverters

\* The inputs of a call: a shape record and what the collaborators do.
Inputs == { input : input \in UNION { { <<shape, e>> : e \in Envs(shape) } : shape \in Shapes } }

\* The caller hands the next shape of its batch to mi_shape_to_bl_shape; a
\* batch is any sequence of shapes, of any length.  bl_mesh and world_matrix
\* are what the caller receives: the pair on a return of
\* (bl_mesh, world_matrix), nothing otherwise.
Call_mi_shape_to_bl_shape ==
    /\ UNCHANGED shape_converters
    /\ \E input \in Inputs :
         \E r \in {mi_shape_to_bl_shape(shape_converters, input[1], input[2])} :
           /\ ret' = [kind |-> r.pc, exc |-> r.exc]
           /\ bl_mesh' = IF r.pc = "pair" THEN r.mesh ELSE NoMesh
           /\ world_matrix' = IF r.pc = "pair" THEN r.wm ELSE NoMatrix
           /\ log' = r.log
           /\ trace' = r.trace
           /\ mi_shape' = input[1]
           /\ env' = input[2]
    /\ op' = "mi_shape_to_bl_shape"

\* The shading utility applied once more to the mesh of the last conversion.
Call_set_bl_mesh_shading ==
    /\ ret.kind = "pair"
    /\ \E flat_shading \in BOOLEAN, flip \in BOOLEAN :
         \E r \in {_set_bl_mesh_shading([Start EXCEPT !.mesh = bl_mesh],
                                        flat_shading, flip)} :
           /\ bl_mesh' = r.mesh
           /\ trace' = r.trace
    /\ op' = "_set_bl_mesh_shading"
    /\ UNCHANGED <<mi_shape, env, ret, world_matrix, log, shape_converters>>

Next ==
    \/ Call_mi_shape_to_bl_shape
    \/ Call_set_bl_mesh_shading

Spec == Init /\ [][Next]_vars

\* ------------------------------------------------------------- vocabulary
Converted == op = "mi_shape_to_bl_shape"
Kind == plugin_name(mi_shape)
Returned == ret.kind = "pair"
Failed == ret.kind = "None"
Raised == ret.kind = "raise"

TypeOK ==
    /\ op \in {"init", "mi_shape_to_bl_shape", "_set_bl_mesh_shading"}
    /\ ret.kind \in {"none", "pair", "None", "raise"}
    /\ (Returned <=> bl_mesh # NoMesh)

HasFilename == has_property(mi_shape, "filename")
FileBacked == {"ply", "obj", "serialized"}
Primitives == {"sphere", "disk", "rectangle", "cube"}

\* the arguments of the first call of the shading utility in the trace
ShadingArgs == trace[FirstOp(trace, "_set_bl_mesh_shading")].a

AllSmooth(mesh, value) ==
    \A i \in 1..Len(mesh.polygons) : mesh.polygons[i].use_smooth = value

\* ----------------------------------------------------------------- claims

\* C1: a shape whose kind is not a key of the dispatch table yields a failed
\* result (no mesh, no transform) and exactly one ERROR diagnostic that names
\* the kind; no converter, path resolution or loader is invoked.
C1_UnsupportedKind ==
    (Converted /\ Kind \notin DOMAIN ShapeConverters) =>
        /\ Failed
        /\ bl_mesh = NoMesh /\ world_matrix = NoMatrix
        /\ CountLevel(log, "ERROR") = 1
        /\ \E i \in 1..Len(log) : log[i].level = "ERROR" /\ log[i].arg = Kind
        /\ \A i \in 1..Len(trace) : trace[i].op = "log"

C1_Witness == Converted /\ Kind = "cylinder" /\ Failed /\ Len(log) = 1

\* C2: when load_ply_mesh finds no mesh, an ERROR is logged and the call of
\* mi_shape_to_bl_shape completes with a failed result instead of raising.
C2_PlyLoadFailureReturned ==
    (Converted /\ Kind = "ply" /\ HasFilename /\ ~env.ply_ok) =>
        /\ CountLevel(log, "ERROR") >= 1
        /\ Failed
        /\ bl_mesh = NoMesh /\ world_matrix = NoMatrix

\* C3: for the serialized kind a decoder failure (instantiation, missing or
\* malformed arrays, shape_index out of range) yields a failed result with an
\* ERROR diagnostic instead of an uncaught exception.
C3_SerializedFailureReturned ==
    (Converted /\ Kind = "serialized" /\ HasFilename /\ env.decoder # "ok") =>
        /\ Failed
        /\ CountLevel(log, "ERROR") >= 1

\* C4 as claimed: for ply and obj, without face_normals the shading utility
\* is applied with flat_shading = true and no polygon is smooth; with
\* face_normals the argument is its value.
C4_DefaultFlat ==
    (Converted /\ Kind \in {"ply", "obj"} /\ Returned) =>
        IF has_property(mi_shape, "face_normals")
        THEN ShadingArgs[1] = Get(mi_shape, "face_normals", FALSE)
        ELSE ShadingArgs[1] = TRUE /\ AllSmooth(bl_mesh, FALSE)

\* C4 amended: for ply and obj, without face_normals the shading utility is
\* applied with flat_shading = false and every polygon is smooth; with
\* face_normals the argument is its value and every polygon is smooth exactly
\* when the value is false.
C4_DefaultSmooth ==
    (Converted /\ Kind \in {"ply", "obj"} /\ Returned) =>
        /\ CountOp(trace, "_set_bl_mesh_shading") = 1
        /\ IF has_property(mi_shape, "face_normals")
           THEN /\ ShadingArgs[1] = Get(mi_shape, "face_normals", FALSE)
                /\ AllSmooth(bl_mesh, ~Get(mi_shape, "face_normals", FALSE))
           ELSE ShadingArgs[1] = FALSE /\ AllSmooth(bl_mesh, TRUE)

C4_Witness ==
    /\ Converted /\ Kind = "ply" /\ Returned
    /\ ~has_property(mi_shape, "face_normals")
    /\ Len(bl_mesh.polygons) = MaxFaces
    /\ ~AllSmooth(NewMesh("", "ply", 0, 0, env.smooth), TRUE)

\* C5: the sphere has two placement modes selected by the presence of
\* to_world: with it the generated radius is 1 whatever radius and center
\* are, and the transform is to_world converted; without it the transform is
\* the translation to the converted center (default origin) and the generated
\* radius is the radius property (default 1).  Never is the radius both in
\* the transform and in the geometry.
C5_SpherePlacement ==
    (Converted /\ Kind = "sphere") =>
        /\ Returned
        /\ bl_mesh.gen = "uvsphere"
        /\ IF has_property(mi_shape, "to_world")
           THEN /\ bl_mesh.size = 1
                /\ world_matrix =
                     mi_space_to_bl_space(
                        mi_transform_to_bl_transform(Get(mi_shape, "to_world", None)))
           ELSE /\ bl_mesh.size = Get(mi_shape, "radius", 1)
                /\ world_matrix =
                     Translation(mi_space_to_bl_space(
                        Vector(Get(mi_shape, "center", <<0, 0, 0>>))))
        /\ (world_matrix.form = "Translation" \/ bl_mesh.size = 1)

C5_Witness ==
    /\ Converted /\ Kind = "sphere" /\ Returned
    /\ has_property(mi_shape, "to_world")
    /\ has_property(mi_shape, "radius") /\ has_property(mi_shape, "center")
    /\ bl_mesh.size = 1

\* C6: for obj, whenever the loader returns n >= 1 meshes the conversion
\* succeeds with entry zero renamed to the shape's id, logs one WARN exactly
\* when n > 1, and logs exactly one INFO, after the load.
C6_ObjFirstMesh ==
    (Converted /\ Kind = "obj" /\ HasFilename /\ env.n_meshes >= 1) =>
        /\ Returned
        /\ bl_mesh.gen = "obj" /\ bl_mesh.entry = 0 /\ bl_mesh.name = mi_shape.id
        /\ CountLevel(log, "WARN") = (IF env.n_meshes > 1 THEN 1 ELSE 0)
        /\ CountLevel(log, "INFO") = 1
        /\ \E i, j \in 1..Len(trace) :
              /\ i < j
              /\ trace[i].op = "bl_import_obj.load"
              /\ trace[j].op = "log" /\ trace[j].a[1] = "INFO"

C6_Witness ==
    /\ Converted /\ Kind = "obj" /\ Returned /\ env.n_meshes = MaxMeshes
    /\ CountLevel(log, "WARN") = 1

\* C7: for ply, obj and serialized, a shape without filename fails the
\* assertion before any path resolution, loader, decoder or mesh creation,
\* and without any diagnostic.
C7_AssertBeforeIO ==
    (Converted /\ Kind \in FileBacked /\ ~HasFilename) =>
        /\ Raised /\ ret.exc = "AssertionError"
        /\ log = <<>>
        /\ \A i \in 1..Len(trace) :
              trace[i].op \notin {"resolve_scene_relative_path", "load_ply_mesh",
                                  "bl_import_obj.load", "mi.load_dict", "traverse",
                                  "meshes.new", "from_pydata", "log"}

C7_Witness ==
    Converted /\ Kind = "serialized" /\ ~HasFilename /\ Raised /\ Len(trace) > 0

\* C8: a successful conversion of a kind other than serialized applies
\* mi_space_to_bl_space exactly once to the placement; a conversion of the
\* serialized kind never applies it and returns to_world unconverted
\* (identity when absent).
C8_SpaceConversionOnce ==
    /\ (Converted /\ Returned /\ Kind # "serialized") =>
          /\ CountOp(trace, "mi_space_to_bl_space") = 1
          /\ world_matrix.nconv = 1
    /\ (Converted /\ Kind = "serialized") =>
          /\ CountOp(trace, "mi_space_to_bl_space") = 0
          /\ Returned =>
                world_matrix = mi_transform_to_bl_transform(Get(mi_shape, "to_world", None))

C8_Witness ==
    /\ Converted /\ Returned /\ Kind = "cube"
    /\ has_property(mi_shape, "to_world") /\ world_matrix.m = "W1"

\* C9: the shading utility with flip_normals reverses the winding of every
\* polygon, without it leaves every winding alone; two applications with
\* flip_normals restore the winding; the flip comes after the shading-mode
\* step; the shading mode is the same on every polygon; and each primitive
\* converter applies the utility once, so flips a mesh at most once.
C9_Step ==
    (op' = "_set_bl_mesh_shading") =>
        LET flat == trace'[1].a[1]
            flip == trace'[1].a[2]
        IN  /\ Len(bl_mesh'.polygons) = Len(bl_mesh.polygons)
            /\ \A i \in 1..Len(bl_mesh.polygons) :
                  /\ Reverse(bl_mesh.polygons[i].vertices) # bl_mesh.polygons[i].vertices
                  /\ bl_mesh'.polygons[i].vertices =
                        IF flip THEN Reverse(bl_mesh.polygons[i].vertices)
                        ELSE bl_mesh.polygons[i].vertices
            /\ AllSmooth(bl_mesh', ~flat)
            /\ CountOp(trace', "flip_normals") = (IF flip THEN 1 ELSE 0)
            /\ flip => FirstOp(trace', "foreach_set") < FirstOp(trace', "flip_normals")

C9_State ==
    /\ (bl_mesh # NoMesh) =>
          \A f1, f2 \in BOOLEAN :
             LET once == _set_bl_mesh_shading([Start EXCEPT !.mesh = bl_mesh], f1, TRUE)
                 twice == _set_bl_mesh_shading([Start EXCEPT !.mesh = once.mesh], f2, TRUE)
             IN  \A i \in 1..Len(bl_mesh.polygons) :
                    twice.mesh.polygons[i].vertices = bl_mesh.polygons[i].vertices
    /\ (Converted /\ Kind \in Primitives) =>
          /\ CountOp(trace, "_set_bl_mesh_shading") = 1
          /\ CountOp(trace, "flip_normals") =
                (IF Get(mi_shape, "flip_normals", FALSE) THEN 1 ELSE 0)
          /\ CountOp(trace, "flip_normals") > 0 =>
                FirstOp(trace, "foreach_set") < FirstOp(trace, "flip_normals")
          /\ \A i \in 1..Len(bl_mesh.polygons) :
                bl_mesh.polygons[i].vertices =
                   IF Get(mi_shape, "flip_normals", FALSE)
                   THEN Reverse(Polygon(i, FALSE).vertices)
                   ELSE Polygon(i, FALSE).vertices

C9_ShadingNormalizer == [](C9_State) /\ [][C9_Step]_vars

C9_Witness ==
    /\ op = "_set_bl_mesh_shading"
    /\ Kind = "disk" /\ Get(mi_shape, "flip_normals", FALSE)
    /\ trace[1].a[1] /\ CountOp(trace, "flip_normals") = 1
    /\ Len(bl_mesh.polygons) = MaxFaces
    /\ \A i \in 1..Len(bl_mesh.polygons) :
          bl_mesh.polygons[i].vertices = Polygon(i, FALSE).vertices

\* C10: over any sequence of calls the dispatch table is never modified, the
\* result of a call is the one its shape record alone determines, and a
\* recoverable failure (unsupported kind, file load failure) comes back as a
\* failed result for that shape, so the caller's batch goes on.
C10_BatchNotAborted ==
    /\ shape_converters = ShapeConverters
    /\ Converted =>
          ret.kind = mi_shape_to_bl_shape(ShapeConverters, mi_shape, env).pc
    /\ (Converted /\ (\/ Kind \notin DOMAIN ShapeConverters
                     \/ (Kind = "ply" /\ HasFilename /\ ~env.ply_ok))) => Failed

====
